---- MODULE Spec2Model ----
(***************************************************************************)
(* Model of the tweet router (src/server/api/routers/tweet.ts) and of the  *)
(* feed list client (src/components/InfiniteTweetList.tsx).                *)
(*                                                                         *)
(* Server state: the Tweet table, the Like table and the follower          *)
(* relation.  Server operations: create, toggleLike (a findUnique step     *)
(* followed by a create/delete step, so that concurrent calls interleave), *)
(* infiniteFeed and infiniteProfileFeed (both through getInfiniteTweets).  *)
(* Client state: the infinite-query cache slots and the TweetCard          *)
(* mutations in flight.                                                    *)
(***************************************************************************)
EXTENDS Integers, Sequences, FiniteSets, TLC

\* ------------------------------------------------------------------ bounds
MaxTweets == 3
MaxTime == 2
MaxLimit == 2
MaxCalls == 2
MaxPages == 3
MaxToggled == 1
MaxFetches == 4
MaxDrift == 3

\* ------------------------------------------------------------------ values
Users == {"u1", "u2"}
\* ctx.session?.user.id of a request without a session
NoUser == "anonymous"
Viewers == Users \cup {NoUser}
TweetIds == 1..MaxTweets
Times == 1..MaxTime
CallIds == 1..MaxCalls
\* the tweet ids the toggleLike requests of the toggle specifications name
ToggledIds == 1..MaxToggled
\* the limits a feed request is made with (limit = 10 when omitted)
Limits == (0 - 2)..MaxLimit
\* cursor: undefined
NoCursor == [id |-> 0, createdAt |-> 0]
\* a Like row is identified by its (userId, tweetId) pair
LikeKeys == Users \X TweetIds

\* whereClause of getInfiniteTweets: undefined, {userId}, or
\* {user: {followers: {some: {id}}}}
WhereNone == [kind |-> "none", userId |-> NoUser]
WhereUser(u) == [kind |-> "userId", userId |-> u]
WhereFollowers(u) == [kind |-> "followers", userId |-> u]

\* the query keys the client caches pages under
KeyGlobal == <<"infiniteFeed", "{}">>
KeyFollowing == <<"infiniteFeed", "onlyFollowing">>
KeyProfile(u) == <<"infiniteProfileFeed", u>>
CacheKeys == {KeyGlobal, KeyFollowing} \cup {KeyProfile(u) : u \in Users}

VARIABLES
    tweets,     \* Tweet table: set of [id, createdAt, userId]
    likes,      \* Like table: number of rows per (userId, tweetId)
    follows,    \* <<follower, followed>> pairs
    calls,      \* toggleLike calls being served, per call slot
    session,    \* the client's viewer (NoUser when not signed in)
    limit,      \* the limit the client's feed queries are made with
    cache,      \* client: infinite-query data per query key
    fetches,    \* client: number of feed fetches issued
    snapshot,   \* per query key: the Tweet table when the first page was served
    settled,    \* per Like key: the result of the latest toggleLike that succeeded
    arrivals,   \* the rows created while an infinite query was between two pages
    applied,    \* client: the latest onSuccess: its tweet, its result, the slots it changed
    query,      \* client: per query key, the state of its infinite query's fetch
    rejected    \* client: the card whose mutation was the latest to end in an error

vars == <<tweets, likes, follows, calls, session, limit, cache, fetches,
          snapshot, settled, arrivals, applied, query, rejected>>

\* ------------------------------------------------------------------ ordering
\* Before with the createdAt key left out of orderBy
BeforeById(a, b) == a.id > b.id

\* orderBy: [{ createdAt: "desc" }, { id: "desc" }]; a sorts before b
Before(a, b) ==
    \/ a.createdAt > b.createdAt
    \/ a.createdAt = b.createdAt /\ a.id > b.id

RECURSIVE SortRows(_)
SortRows(S) ==
    IF S = {} THEN <<>>
    ELSE LET first == CHOOSE a \in S : \A b \in S \ {a} : Before(a, b)
         IN  <<first>> \o SortRows(S \ {first})

\* where: whereClause
Matches(row, where) ==
    CASE where.kind = "none" -> TRUE
      [] where.kind = "userId" -> row.userId = where.userId
      [] where.kind = "followers" -> <<where.userId, row.userId>> \in follows

\* take: the first n rows; a negative take: the last n rows
Take(s, n) == SubSeq(s, 1, IF n < Len(s) THEN n ELSE Len(s))
TakeLast(s, n) == SubSeq(s, (IF n < Len(s) THEN Len(s) - n ELSE 0) + 1, Len(s))

\* FindMany with skip: 1, the cursor row left out of the range
FindManySkipCursor(where, cursor, take) ==
    LET matching == {r \in tweets : Matches(r, where)}
        range ==
            IF cursor = NoCursor THEN matching
            ELSE IF take >= 0
                 THEN {r \in matching :
                          \/ cursor.createdAt > r.createdAt
                          \/ cursor.createdAt = r.createdAt /\ cursor.id > r.id}
                 ELSE {r \in matching :
                          \/ r.createdAt > cursor.createdAt
                          \/ r.createdAt = cursor.createdAt /\ r.id > cursor.id}
        rows == SortRows(range)
    IN  IF take >= 0 THEN Take(rows, take) ELSE TakeLast(rows, 0 - take)

\* FindMany with the cursor dropped: every request reads from the first row
FindManyFromStart(where, cursor, take) ==
    LET rows == SortRows({r \in tweets : Matches(r, where)})
    IN  IF take >= 0 THEN Take(rows, take) ELSE TakeLast(rows, 0 - take)

\* prisma.tweet.findMany({take, cursor, orderBy, where}): the cursor row is the
\* first row of the range (no skip); a negative take reads backwards from it
FindMany(where, cursor, take) ==
    LET anchor == {r \in tweets : r.id = cursor.id /\ r.createdAt = cursor.createdAt}
        matching == {r \in tweets : Matches(r, where)}
        range ==
            IF cursor = NoCursor THEN matching
            ELSE IF anchor = {} THEN {}
            ELSE LET c == CHOOSE r \in anchor : TRUE
                 IN  IF take >= 0
                     THEN {r \in matching : r = c \/ Before(c, r)}
                     ELSE {r \in matching : r = c \/ Before(r, c)}
        rows == SortRows(range)
    IN  IF take >= 0 THEN Take(rows, take) ELSE TakeLast(rows, 0 - take)

LikeCount(t) ==
    LET RECURSIVE Sum(_)
        Sum(S) == IF S = {} THEN 0
                  ELSE LET u == CHOOSE x \in S : TRUE
                       IN  likes[<<u, t>>] + Sum(S \ {u})
    IN  Sum(Users)

\* Project with the Likes relation not filtered by the viewer's id
ProjectAnyLike(row, viewer) ==
    [id |-> row.id,
     createdAt |-> row.createdAt,
     likeCount |-> LikeCount(row.id),
     user |-> row.userId,
     likedByMe |-> IF viewer = NoUser THEN FALSE ELSE LikeCount(row.id) > 0]

\* data.map((tweet) => ...): the read projection of a row for a viewer
Project(row, viewer) ==
    [id |-> row.id,
     createdAt |-> row.createdAt,
     likeCount |-> LikeCount(row.id),
     user |-> row.userId,
     likedByMe |-> IF viewer = NoUser THEN FALSE ELSE likes[<<viewer, row.id>>] > 0]

\* getInfiniteTweets with nextCursor taken from the last tweet kept in the page
getInfiniteTweetsLastKept(where, viewer, lim, cursor) ==
    LET data == FindMany(where, cursor, lim + 1)
        more == Len(data) > lim
        kept == IF more /\ Len(data) > 0 THEN SubSeq(data, 1, Len(data) - 1) ELSE data
    IN  [tweets |-> [i \in 1..Len(kept) |-> Project(kept[i], viewer)],
         nextCursor |-> IF more /\ Len(kept) > 0
                        THEN [id |-> kept[Len(kept)].id,
                              createdAt |-> kept[Len(kept)].createdAt]
                        ELSE NoCursor]

\* getInfiniteTweets with data.length >= limit as the test for more
getInfiniteTweetsOffByOne(where, viewer, lim, cursor) ==
    LET data == FindMany(where, cursor, lim + 1)
        more == Len(data) >= lim
        nextItem == IF more /\ Len(data) > 0 THEN data[Len(data)] ELSE NoCursor
        kept == IF more /\ Len(data) > 0 THEN SubSeq(data, 1, Len(data) - 1) ELSE data
    IN  [tweets |-> [i \in 1..Len(kept) |-> Project(kept[i], viewer)],
         nextCursor |-> IF more /\ Len(data) > 0
                        THEN [id |-> nextItem.id, createdAt |-> nextItem.createdAt]
                        ELSE NoCursor]

\* getInfiniteTweets({whereClause, ctx, limit, cursor})
getInfiniteTweets(where, viewer, lim, cursor) ==
    LET data == FindMany(where, cursor, lim + 1)
        more == Len(data) > lim
        nextItem == IF more /\ Len(data) > 0 THEN data[Len(data)] ELSE NoCursor
        kept == IF more /\ Len(data) > 0 THEN SubSeq(data, 1, Len(data) - 1) ELSE data
    IN  [tweets |-> [i \in 1..Len(kept) |-> Project(kept[i], viewer)],
         nextCursor |-> IF more /\ Len(data) > 0
                        THEN [id |-> nextItem.id, createdAt |-> nextItem.createdAt]
                        ELSE NoCursor]

\* FeedWhere without the currentUserId == null test
FeedWhereNoNullTest(viewer, onlyFollowing) ==
    IF ~onlyFollowing THEN WhereNone ELSE WhereFollowers(viewer)

\* infiniteFeed's whereClause
FeedWhere(viewer, onlyFollowing) ==
    IF viewer = NoUser \/ ~onlyFollowing THEN WhereNone ELSE WhereFollowers(viewer)

infiniteFeed(viewer, onlyFollowing, lim, cursor) ==
    getInfiniteTweets(FeedWhere(viewer, onlyFollowing), viewer, lim, cursor)

infiniteProfileFeed(viewer, userId, lim, cursor) ==
    getInfiniteTweets(WhereUser(userId), viewer, lim, cursor)

\* ------------------------------------------------------------------ initial state
NoCard == <<KeyGlobal, 0>>
NoneApplied == [id |-> 0, addedLike |-> FALSE, slots |-> {}]
IdleCall ==
    [pc |-> "idle", userId |-> NoUser, tweetId |-> 0, existingLike |-> FALSE,
     addedLike |-> FALSE, card |-> NoCard, author |-> NoUser]
EmptyCache == [populated |-> FALSE, pages |-> <<>>]
\* the follower relation, which no operation of the router writes: u1 follows
\* u2, and u2 follows nobody
Followers == {<<"u1", "u2">>}

Init ==
    /\ tweets = {}
    /\ likes = [k \in LikeKeys |-> 0]
    /\ follows = Followers
    /\ calls = [c \in CallIds |-> IdleCall]
    /\ session \in Viewers
    /\ limit \in Limits
    /\ cache = [k \in CacheKeys |-> EmptyCache]
    /\ fetches = 0
    /\ snapshot = [k \in CacheKeys |-> {}]
    /\ settled = [k \in LikeKeys |-> "none"]
    /\ arrivals = {}
    /\ applied = NoneApplied
    /\ query = [k \in CacheKeys |-> "idle"]
    /\ rejected = NoCard

\* the infinite query of key k has a page to fetch (hasNextPage, or no data yet)
HasNextPage(k) ==
    IF cache[k].populated
    THEN cache[k].pages[Len(cache[k].pages)].nextCursor # NoCursor
    ELSE TRUE

\* ------------------------------------------------------------------ server: create
\* the readings the storage clock may give: it never runs backwards, so none
\* before the createdAt of a row already written
ClockReadings == {t \in Times : \A r \in tweets : r.createdAt <= t}

\* create: prisma.tweet.create({data: {content, userId}}); id and createdAt are
\* the storage defaults (a fresh id, the clock's reading at)
Create(u, id, at) ==
    /\ id \notin {r.id : r \in tweets}
    /\ at \in ClockReadings
    /\ tweets' = tweets \cup {[id |-> id, createdAt |-> at, userId |-> u]}
    /\ arrivals' = IF \E k \in CacheKeys : cache[k].populated /\ HasNextPage(k)
                   THEN arrivals \cup {[id |-> id, createdAt |-> at, userId |-> u]}
                   ELSE arrivals
    /\ UNCHANGED <<likes, follows, calls, session, limit, cache, fetches,
                   snapshot, settled, applied, query, rejected>>

\* ------------------------------------------------------------------ server: toggleLike
TweetExists(t) == \E r \in tweets : r.id = t

\* CreateAccepted without the unique (userId, tweetId) key
CreateAcceptedNoUnique(k) == TweetExists(k[2])

\* prisma.like.create({data}): rejected by the unique (userId, tweetId) key when
\* the row exists, and by the relation to Tweet when the tweet does not
CreateAccepted(k) == likes[k] = 0 /\ TweetExists(k[2])

\* DeleteAccepted with the delete of a row that is not there let through
DeleteAcceptedAbsent(k) == TweetExists(k[2])

\* prisma.like.delete({where}): rejected when there is no such row
DeleteAccepted(k) == likes[k] > 0

\* toggleLike, first half: the request of viewer u for tweet t reaches the
\* handler, which awaits findUnique.  card is the TweetCard whose mutation this
\* is (NoCard for a request of another client), author its user.id
ToggleFind(c, u, t, card, author) ==
    /\ calls[c].pc = "idle"
    /\ calls' = [calls EXCEPT ![c] =
            [pc |-> "found", userId |-> u, tweetId |-> t,
             existingLike |-> likes[<<u, t>>] > 0,
             addedLike |-> FALSE, card |-> card, author |-> author]]
    /\ UNCHANGED <<tweets, likes, follows, session, limit, cache, fetches,
                   snapshot, settled, arrivals, applied, query, rejected>>

\* ToggleWrite returning {addedLike: true} from the delete branch too
ToggleWriteAlwaysAdded(c) ==
    LET k == <<calls[c].userId, calls[c].tweetId>>
    IN  /\ calls[c].pc = "found"
        /\ IF ~calls[c].existingLike
           THEN IF CreateAccepted(k)
                THEN /\ likes' = [likes EXCEPT ![k] = @ + 1]
                     /\ calls' = [calls EXCEPT ![c].pc = "done", ![c].addedLike = TRUE]
                     /\ settled' = [settled EXCEPT ![k] = "added"]
                ELSE /\ calls' = [calls EXCEPT ![c].pc = "failed"]
                     /\ UNCHANGED <<likes, settled>>
           ELSE IF DeleteAccepted(k)
                THEN /\ likes' = [likes EXCEPT ![k] = @ - 1]
                     /\ calls' = [calls EXCEPT ![c].pc = "done", ![c].addedLike = TRUE]
                     /\ settled' = [settled EXCEPT ![k] = "added"]
                ELSE /\ calls' = [calls EXCEPT ![c].pc = "failed"]
                     /\ UNCHANGED <<likes, settled>>
        /\ UNCHANGED <<tweets, follows, session, limit, cache, fetches, snapshot,
                       arrivals, applied, query, rejected>>

\* toggleLike, second half: create or delete, as existingLike decides; a
\* rejected write throws and the call fails
ToggleWrite(c) ==
    LET k == <<calls[c].userId, calls[c].tweetId>>
    IN  /\ calls[c].pc = "found"
        /\ IF ~calls[c].existingLike
           THEN IF CreateAccepted(k)
                THEN /\ likes' = [likes EXCEPT ![k] = @ + 1]
                     /\ calls' = [calls EXCEPT ![c].pc = "done", ![c].addedLike = TRUE]
                     /\ settled' = [settled EXCEPT ![k] = "added"]
                ELSE /\ calls' = [calls EXCEPT ![c].pc = "failed"]
                     /\ UNCHANGED <<likes, settled>>
           ELSE IF DeleteAccepted(k)
                THEN /\ likes' = [likes EXCEPT ![k] = @ - 1]
                     /\ calls' = [calls EXCEPT ![c].pc = "done", ![c].addedLike = FALSE]
                     /\ settled' = [settled EXCEPT ![k] = "removed"]
                ELSE /\ calls' = [calls EXCEPT ![c].pc = "failed"]
                     /\ UNCHANGED <<likes, settled>>
        /\ UNCHANGED <<tweets, follows, session, limit, cache, fetches, snapshot,
                       arrivals, applied, query, rejected>>

\* a toggleLike request of another client or session
OtherToggle(c, u, t) == ToggleFind(c, u, t, NoCard, NoUser)

\* ------------------------------------------------------------------ client
\* the tweets of a cache slot, all pages in order (pages.flatMap)
RECURSIVE Flat(_)
Flat(pages) ==
    IF pages = <<>> THEN <<>> ELSE Head(pages).tweets \o Flat(Tail(pages))

CachedIds(k) == {Flat(cache[k].pages)[i].id : i \in 1..Len(Flat(cache[k].pages))}

\* the row set a query key ranges over, for the client's viewer
KeyWhere(k) ==
    IF k = KeyGlobal THEN FeedWhere(session, FALSE)
    ELSE IF k = KeyFollowing THEN FeedWhere(session, TRUE)
    ELSE WhereUser(k[2])

KeyQuery(k, cursor) ==
    IF k = KeyGlobal THEN infiniteFeed(session, FALSE, limit, cursor)
    ELSE IF k = KeyFollowing THEN infiniteFeed(session, TRUE, limit, cursor)
    ELSE infiniteProfileFeed(session, k[2], limit, cursor)

\* the infinite query of key k fetches its first page, or the page after the
\* latest one with that page's nextCursor, and appends the response
FetchPage(k) ==
    LET cursor == IF cache[k].populated
                  THEN cache[k].pages[Len(cache[k].pages)].nextCursor
                  ELSE NoCursor
    IN  /\ query[k] = "idle"
        /\ HasNextPage(k)
        /\ Len(cache[k].pages) < MaxPages
        /\ cache' = [cache EXCEPT ![k] =
                [populated |-> TRUE, pages |-> Append(@.pages, KeyQuery(k, cursor))]]
        /\ fetches' = fetches + 1
        /\ snapshot' = IF cache[k].populated THEN snapshot
                       ELSE [snapshot EXCEPT ![k] = tweets]
        /\ UNCHANGED <<tweets, likes, follows, calls, session, limit, settled,
                       arrivals, applied, query, rejected>>

\* the same fetch with the time the request takes: the request is sent,
FetchStart(k) ==
    /\ query[k] # "fetching"
    /\ HasNextPage(k)
    /\ Len(cache[k].pages) < MaxPages
    /\ fetches < MaxFetches
    /\ query' = [query EXCEPT ![k] = "fetching"]
    /\ fetches' = fetches + 1
    /\ UNCHANGED <<tweets, likes, follows, calls, session, limit, cache, snapshot,
                   settled, arrivals, applied, rejected>>

\* and its response is appended,
FetchArrive(k) ==
    LET cursor == IF cache[k].populated
                  THEN cache[k].pages[Len(cache[k].pages)].nextCursor
                  ELSE NoCursor
    IN  /\ query[k] = "fetching"
        /\ cache' = [cache EXCEPT ![k] =
                [populated |-> TRUE, pages |-> Append(@.pages, KeyQuery(k, cursor))]]
        /\ snapshot' = IF cache[k].populated THEN snapshot
                       ELSE [snapshot EXCEPT ![k] = tweets]
        /\ query' = [query EXCEPT ![k] = "idle"]
        /\ UNCHANGED <<tweets, likes, follows, calls, session, limit, fetches,
                       settled, arrivals, applied, rejected>>

\* or the request fails and the data fetched before is kept
FetchFail(k) ==
    /\ query[k] = "fetching"
    /\ query' = [query EXCEPT ![k] = "error"]
    /\ UNCHANGED <<tweets, likes, follows, calls, session, limit, cache, fetches,
                   snapshot, settled, arrivals, applied, rejected>>

\* updateData without the tweet.id === id test: every entry is changed
updateDataEveryTweet(oldData, id, addedLike) ==
    IF ~oldData.populated THEN oldData
    ELSE LET countModifier == IF addedLike THEN 1 ELSE 0 - 1
             tweetMap(tweet) ==
                 [tweet EXCEPT !.likeCount = @ + countModifier,
                               !.likedByMe = addedLike]
             pageMap(page) ==
                 [page EXCEPT !.tweets = [i \in 1..Len(@) |-> tweetMap(@[i])]]
         IN  [oldData EXCEPT !.pages = [i \in 1..Len(@) |-> pageMap(@[i])]]

\* updateData: the updater handed to setInfiniteData
updateData(oldData, id, addedLike) ==
    IF ~oldData.populated THEN oldData
    ELSE LET countModifier == IF addedLike THEN 1 ELSE 0 - 1
             tweetMap(tweet) ==
                 IF tweet.id = id
                 THEN [tweet EXCEPT !.likeCount = @ + countModifier,
                                    !.likedByMe = addedLike]
                 ELSE tweet
             pageMap(page) ==
                 [page EXCEPT !.tweets = [i \in 1..Len(@) |-> tweetMap(@[i])]]
         IN  [oldData EXCEPT !.pages = [i \in 1..Len(@) |-> pageMap(@[i])]]

\* UpdatedKeys without the {onlyFollowing: true} call
UpdatedKeysNoFollowing(author) == {KeyGlobal, KeyProfile(author)}

\* the three setInfiniteData calls of onSuccess
UpdatedKeys(author) == {KeyGlobal, KeyFollowing, KeyProfile(author)}

onSuccess(id, author, addedLike) ==
    [k \in CacheKeys |->
        IF k \in UpdatedKeys(author) THEN updateData(cache[k], id, addedLike)
        ELSE cache[k]]

\* HeartButton of the TweetCard of cached entry i of key k: a button for an
\* authenticated viewer, disabled while the card's mutation is loading
CardLoading(card) == \E c \in CallIds : calls[c].pc # "idle" /\ calls[c].card = card

\* handleToggleLike: toggleLike.mutate({id})
Click(c, k, i) ==
    /\ session # NoUser
    /\ i \in 1..Len(Flat(cache[k].pages))
    /\ LET tweet == Flat(cache[k].pages)[i]
       IN  /\ ~CardLoading(<<k, tweet.id>>)
           /\ ToggleFind(c, session, tweet.id, <<k, tweet.id>>, tweet.user)

\* ToggleSettle with the cache update run for an error response too
ToggleSettleOnError(c) ==
    /\ calls[c].pc \in {"done", "failed"}
    /\ IF calls[c].card # NoCard
       THEN /\ cache' = onSuccess(calls[c].tweetId, calls[c].author, ~calls[c].existingLike)
            /\ applied' = [id |-> calls[c].tweetId,
                           addedLike |-> ~calls[c].existingLike,
                           slots |-> {k \in UpdatedKeys(calls[c].author) :
                                         calls[c].tweetId \in CachedIds(k)}]
       ELSE UNCHANGED <<cache, applied>>
    /\ rejected' = IF calls[c].pc = "failed" /\ calls[c].card # NoCard
                   THEN calls[c].card ELSE rejected
    /\ calls' = [calls EXCEPT ![c] = IdleCall]
    /\ UNCHANGED <<tweets, likes, follows, session, limit, fetches, snapshot,
                   settled, arrivals, query>>

\* the response of call c arrives: onSuccess for a result, nothing for an error
ToggleSettle(c) ==
    /\ calls[c].pc \in {"done", "failed"}
    /\ IF calls[c].pc = "done" /\ calls[c].card # NoCard
       THEN /\ cache' = onSuccess(calls[c].tweetId, calls[c].author, calls[c].addedLike)
            /\ applied' = [id |-> calls[c].tweetId,
                           addedLike |-> calls[c].addedLike,
                           slots |-> {k \in UpdatedKeys(calls[c].author) :
                                         calls[c].tweetId \in CachedIds(k)}]
       ELSE UNCHANGED <<cache, applied>>
    /\ rejected' = IF calls[c].pc = "failed" /\ calls[c].card # NoCard
                   THEN calls[c].card ELSE rejected
    /\ calls' = [calls EXCEPT ![c] = IdleCall]
    /\ UNCHANGED <<tweets, likes, follows, session, limit, fetches, snapshot,
                   settled, arrivals, query>>

\* ------------------------------------------------------------------ client: the list
\* the props the page hands to InfiniteTweetList for the infinite query of key
\* k: its pages flattened (undefined before the first page), and its flags
TweetsProp(k) == [defined |-> cache[k].populated, items |-> Flat(cache[k].pages)]
IsLoading(k) == ~cache[k].populated /\ query[k] = "fetching"
IsError(k) == query[k] = "error"
HasMore(k) == cache[k].populated /\ HasNextPage(k)

\* InfiniteTweetList: what the component returns.  The statements on isLoading
\* and on isError build an element and drop it, neither returns; loader says
\* whether InfiniteScroll has more to load and shows its loader meanwhile
InfiniteTweetList(tweetsProp, isError, isLoading, hasMore) ==
    LET dropped == <<IF isLoading THEN "LoadingSpinner" ELSE "none",
                     IF isError THEN "Error..." ELSE "none">>
    IN  IF ~tweetsProp.defined THEN [shown |-> "null", loader |-> FALSE]
        ELSE IF Len(tweetsProp.items) = 0 THEN [shown |-> "No Tweets", loader |-> FALSE]
        ELSE [shown |-> "list", loader |-> hasMore]

View(k) == InfiniteTweetList(TweetsProp(k), IsError(k), IsLoading(k), HasMore(k))

\* ------------------------------------------------------------------ specifications
Next ==
    \/ \E u \in Users, id \in TweetIds, at \in Times : Create(u, id, at)
    \/ \E c \in CallIds, u \in Users, t \in TweetIds : OtherToggle(c, u, t)
    \/ \E c \in CallIds : ToggleWrite(c)
    \/ \E c \in CallIds : ToggleSettle(c)
    \/ \E k \in CacheKeys : FetchPage(k)
    \/ \E c \in CallIds, k \in CacheKeys, i \in 1..(MaxPages * MaxLimit) : Click(c, k, i)
    \/ \E k \in CacheKeys : FetchStart(k)
    \/ \E k \in CacheKeys : FetchArrive(k)
    \/ \E k \in CacheKeys : FetchFail(k)

Spec == Init /\ [][Next]_vars

\* the feed queries under concurrent creates; the requests are independent of
\* each other, so one query key is walked per behaviour
OneWalk(k) == \A j \in CacheKeys \ {k} : ~cache[j].populated /\ query[j] = "idle"

NextFeed ==
    \/ \E u \in Users, id \in TweetIds, at \in Times : Create(u, id, at)
    \/ \E k \in CacheKeys : OneWalk(k) /\ FetchPage(k)

SpecFeed == Init /\ [][NextFeed]_vars

\* toggleLike calls of any clients, their steps interleaved; the client of the
\* model plays no part
InitServer == Init /\ session = NoUser /\ limit = MaxLimit

NextToggle ==
    \/ \E u \in Users, id \in ToggledIds : Create(u, id, 1)
    \/ \E c \in CallIds, u \in Users, t \in ToggledIds : OtherToggle(c, u, t)
    \/ \E c \in CallIds : ToggleWrite(c)
    \/ \E c \in CallIds : ToggleSettle(c)

SpecToggle == InitServer /\ [][NextToggle]_vars

\* toggleLike calls one after the other on each (viewer, tweet) pair: a call
\* starts only when no other call on its pair is between its two halves
NoneBetweenHalves(u, t) ==
    \A d \in CallIds :
        calls[d].pc = "found" => <<calls[d].userId, calls[d].tweetId>> # <<u, t>>

NextSerial ==
    \/ \E u \in Users, id \in ToggledIds : Create(u, id, 1)
    \/ \E c \in CallIds, u \in Users, t \in ToggledIds :
           NoneBetweenHalves(u, t) /\ OtherToggle(c, u, t)
    \/ \E c \in CallIds : ToggleWrite(c)
    \/ \E c \in CallIds : ToggleSettle(c)

SpecSerial == InitServer /\ [][NextSerial]_vars

\* a race of toggleLike calls, each call slot serving one request: the tweets
\* exist, and each Like is there or not when the calls start
InitRace ==
    /\ tweets = {[id |-> t, createdAt |-> 1, userId |-> "u2"] : t \in ToggledIds}
    /\ likes \in {f \in [LikeKeys -> {0, 1}] :
                     \A k \in LikeKeys : k[2] \notin ToggledIds => f[k] = 0}
    /\ follows = Followers
    /\ calls = [c \in CallIds |-> IdleCall]
    /\ session = NoUser
    /\ limit = MaxLimit
    /\ cache = [k \in CacheKeys |-> EmptyCache]
    /\ fetches = 0
    /\ snapshot = [k \in CacheKeys |-> {}]
    /\ settled = [k \in LikeKeys |-> "none"]
    /\ arrivals = {}
    /\ applied = NoneApplied
    /\ query = [k \in CacheKeys |-> "idle"]
    /\ rejected = NoCard

NextRace ==
    \/ \E c \in CallIds, u \in Users, t \in ToggledIds : OtherToggle(c, u, t)
    \/ \E c \in CallIds : ToggleWrite(c)

SpecRace == InitRace /\ [][NextRace]_vars

\* the signed-in client: its feed queries and its like buttons, over the
\* tweets the toggle specifications name, created before it opens a feed; a
\* like button is clicked when the response to the previous click has arrived
InitClient == Init /\ limit = MaxLimit /\ session # NoUser

NothingInFlight == \A c \in CallIds : calls[c].pc = "idle"
NothingCached == \A k \in CacheKeys : ~cache[k].populated

NextClient ==
    \/ \E u \in Users, id \in ToggledIds : NothingCached /\ Create(u, id, 1)
    \/ \E k \in CacheKeys : FetchPage(k)
    \/ \E c \in CallIds, k \in CacheKeys, i \in 1..(MaxPages * MaxLimit) :
           NothingInFlight /\ Click(c, k, i)
    \/ \E c \in CallIds : ToggleWrite(c)
    \/ \E c \in CallIds : ToggleSettle(c)

SpecClient == InitClient /\ [][NextClient]_vars

\* feed queries of the client, signed in or not, between toggleLike calls of
\* any viewers
InitRead == Init /\ limit = MaxLimit

NextRead ==
    \/ \E u \in Users, id \in ToggledIds : Create(u, id, 1)
    \/ \E c \in CallIds, u \in Users, t \in ToggledIds :
           NothingInFlight /\ OtherToggle(c, u, t)
    \/ \E c \in CallIds : ToggleWrite(c)
    \/ \E c \in CallIds : ToggleSettle(c)
    \/ \E k \in CacheKeys : OneWalk(k) /\ FetchPage(k)

SpecRead == InitRead /\ [][NextRead]_vars

\* the call slots are alike: a request is served in the first free one
FirstFree(c) == calls[c].pc = "idle" /\ \A d \in CallIds : d < c => calls[d].pc # "idle"

\* the lists a tweet can be shown in: the two feeds and its author's profile
ShownList(k) ==
    k \in {KeyGlobal, KeyFollowing} \cup {KeyProfile(r.userId) : r \in tweets}

\* the signed-in client with the cards one tweet has in its lists: a like
\* button is clicked whenever it is enabled
NextCards ==
    \/ \E u \in Users, id \in ToggledIds :
           /\ tweets = {} /\ NothingCached
           /\ \A j \in ToggledIds : id <= j
           /\ Create(u, id, 1)
    \/ \E k \in CacheKeys : ShownList(k) /\ FetchPage(k)
    \/ \E c \in CallIds, k \in CacheKeys, i \in 1..(MaxPages * MaxLimit) :
           FirstFree(c) /\ Click(c, k, i)
    \/ \E c \in CallIds : ToggleWrite(c)
    \/ \E c \in CallIds : ToggleSettle(c)

\* the viewer is u1, who follows u2 and is not followed
InitCards == InitClient /\ session = "u1"

SpecCards == InitCards /\ [][NextCards]_vars

\* the signed-in client over a feed of several tweets, created before it opens
\* a list; a like button is clicked when the response to the previous click
\* has arrived
NextFrame ==
    \/ \E u \in Users, id \in TweetIds :
           /\ NothingCached
           /\ \A j \in TweetIds : j < id => TweetExists(j)
           /\ Create(u, id, 1)
    \/ \E k \in CacheKeys : NothingInFlight /\ ShownList(k) /\ FetchPage(k)
    \/ \E c \in CallIds, k \in CacheKeys, i \in 1..(MaxPages * MaxLimit) :
           NothingInFlight /\ FirstFree(c) /\ Click(c, k, i)
    \/ \E c \in CallIds : ToggleWrite(c)
    \/ \E c \in CallIds : ToggleSettle(c)

SpecFrame == InitCards /\ [][NextFrame]_vars

\* the signed-in client and another session of the same viewer, which likes
\* and unlikes the tweet too; the client's like buttons are clicked while the
\* counts it shows are within MaxDrift of zero
WithinDrift ==
    \A k \in CacheKeys :
        \A i \in 1..Len(Flat(cache[k].pages)) :
            /\ Flat(cache[k].pages)[i].likeCount < MaxDrift
            /\ Flat(cache[k].pages)[i].likeCount > 0 - MaxDrift

NextSessions ==
    \/ \E u \in Users, id \in ToggledIds :
           /\ tweets = {} /\ NothingCached
           /\ \A j \in ToggledIds : id <= j
           /\ Create(u, id, 1)
    \/ \E k \in CacheKeys : ShownList(k) /\ FetchPage(k)
    \/ \E c \in CallIds, k \in CacheKeys, i \in 1..(MaxPages * MaxLimit) :
           NothingInFlight /\ WithinDrift /\ FirstFree(c) /\ Click(c, k, i)
    \/ \E c \in CallIds, t \in ToggledIds :
           NothingInFlight /\ FirstFree(c) /\ OtherToggle(c, session, t)
    \/ \E c \in CallIds : ToggleWrite(c)
    \/ \E c \in CallIds : ToggleSettle(c)

SpecSessions == InitCards /\ [][NextSessions]_vars

\* the list of one infinite query, its fetches taking time and failing or not,
\* while tweets are created
InitView == Init /\ limit \in 1..MaxLimit /\ session = NoUser

NextView ==
    \/ \E u \in Users, id \in TweetIds : Create(u, id, 1)
    \/ \E k \in CacheKeys : OneWalk(k) /\ FetchStart(k)
    \/ \E k \in CacheKeys : FetchArrive(k)
    \/ \E k \in CacheKeys : FetchFail(k)

SpecView == InitView /\ [][NextView]_vars

\* ------------------------------------------------------------------ toggle claims
KeyOf(c) == <<calls[c].userId, calls[c].tweetId>>

\* C3: no (userId, tweetId) pair ever has more than one Like, whatever the
\* interleaving of toggleLike calls; a create succeeds only when the pair has
\* no Like and the last toggle to succeed on it was not a create, a delete
\* only when the pair has its Like and the last toggle to succeed created it.
C3_AtMostOneLike ==
    /\ [](\A k \in LikeKeys : likes[k] <= 1)
    /\ [][\A c \in CallIds :
            (calls[c].pc = "found" /\ calls'[c].pc = "done") =>
                IF calls'[c].addedLike
                THEN /\ likes[KeyOf(c)] = 0 /\ likes'[KeyOf(c)] = 1
                     /\ settled[KeyOf(c)] # "added"
                ELSE /\ likes[KeyOf(c)] = 1 /\ likes'[KeyOf(c)] = 0
                     /\ settled[KeyOf(c)] = "added"]_vars

\* two calls of one viewer on one tweet both found no Like; one has created
\* it and the other's create was rejected
C3_Witness ==
    \E c, d \in CallIds :
        /\ c # d /\ KeyOf(c) = KeyOf(d)
        /\ calls[c].pc = "done" /\ calls[c].addedLike /\ ~calls[c].existingLike
        /\ calls[d].pc = "failed" /\ ~calls[d].existingLike
        /\ TweetExists(calls[d].tweetId)

\* C4: two concurrent toggleLike calls on one (viewer, tweet) pair end as some
\* serial execution of the two would: both report a result, the one
\* serialised first the opposite of what it found and the other the opposite
\* of that, and the Like ends as it was before both.
C4_TogglesSerializable ==
    \A c, d \in CallIds :
        (/\ c # d /\ KeyOf(c) = KeyOf(d)
         /\ calls[c].pc \in {"done", "failed"}
         /\ calls[d].pc \in {"done", "failed"}) =>
            \E first \in {c, d} :
                LET second == IF first = c THEN d ELSE c
                IN  /\ calls[first].pc = "done" /\ calls[second].pc = "done"
                    /\ calls[first].addedLike = ~calls[first].existingLike
                    /\ calls[second].addedLike = ~calls[first].addedLike
                    /\ (likes[KeyOf(c)] > 0) = calls[first].existingLike

\* C5: with no other toggle on the pair in between, a toggleLike call on a
\* tweet that finds no Like creates it and returns addedLike = true, one that
\* finds a Like deletes it and returns addedLike = false; the result is the
\* opposite of the previous call's, and the Like state after the call is the
\* state before the previous call.
C5_ToggleLaw ==
    [][\A c \in CallIds :
        (calls[c].pc = "found" /\ calls'[c].pc # "found"
            /\ TweetExists(calls[c].tweetId)) =>
            /\ calls'[c].pc = "done"
            /\ calls'[c].addedLike = ~calls[c].existingLike
            /\ calls[c].existingLike = (likes[KeyOf(c)] = 1)
            /\ likes'[KeyOf(c)] = IF calls[c].existingLike THEN 0 ELSE 1
            /\ settled[KeyOf(c)] = "added" => ~calls'[c].addedLike
            /\ settled[KeyOf(c)] = "removed" => calls'[c].addedLike
            /\ settled'[KeyOf(c)] # settled[KeyOf(c)]]_vars

\* a third call in a row on a pair: the Like was created, deleted, and is
\* created again
C5_Witness ==
    \E c \in CallIds :
        /\ calls[c].pc = "done" /\ calls[c].addedLike
        /\ \E d \in CallIds \ {c} :
               /\ KeyOf(d) = KeyOf(c)
               /\ calls[d].pc = "done" /\ ~calls[d].addedLike
               /\ calls[d].existingLike
        /\ likes[KeyOf(c)] = 1 /\ settled[KeyOf(c)] = "added"

\* ------------------------------------------------------------------ feed claims
\* the feed order as the claims state it: b comes after a when it is older, or
\* as old with a smaller id
SortsAfter(b, a) ==
    \/ b.createdAt < a.createdAt
    \/ b.createdAt = a.createdAt /\ b.id < a.id

IdsOf(s) == {s[i].id : i \in 1..Len(s)}
NoRepeat(s) == \A i, j \in 1..Len(s) : i # j => s[i].id # s[j].id
WalkDone(k) == cache[k].populated /\ ~HasNextPage(k)
\* the ids of the rows that matched key k when its first page was served
MatchedAtFirst(k) == {r.id : r \in {x \in snapshot[k] : Matches(x, KeyWhere(k))}}
\* no tweet was written since the first page of key k was served
NoWritesSince(k) == tweets = snapshot[k]
\* the cursor page n of key k was requested with
CursorOf(k, n) == IF n = 1 THEN NoCursor ELSE cache[k].pages[n - 1].nextCursor
PagesInOrder(pages) ==
    \A n \in 1..(Len(pages) - 1) :
        \A i \in 1..Len(pages[n].tweets), j \in 1..Len(pages[n + 1].tweets) :
            SortsAfter(pages[n + 1].tweets[j], pages[n].tweets[i])

\* C1: with limit >= 1 and no write since the first page, the pages fetched so
\* far hold tweets of the matching set only, none twice, every tweet of a page
\* sorting after every tweet of the page before; and once the page without
\* nextCursor is reached they hold every matching tweet.
C1_WalkCoversFeedOnce ==
    \A k \in CacheKeys :
        (limit >= 1 /\ cache[k].populated /\ NoWritesSince(k)) =>
            /\ NoRepeat(Flat(cache[k].pages))
            /\ PagesInOrder(cache[k].pages)
            /\ IdsOf(Flat(cache[k].pages)) \subseteq MatchedAtFirst(k)
            /\ WalkDone(k) => IdsOf(Flat(cache[k].pages)) = MatchedAtFirst(k)

\* a walk of three pages that is complete, over tweets of which two share a
\* createdAt
C1_Witness ==
    \E k \in CacheKeys :
        /\ limit >= 1 /\ WalkDone(k) /\ NoWritesSince(k)
        /\ Len(cache[k].pages) = 3
        /\ \E i, j \in 1..Len(Flat(cache[k].pages)) :
               /\ i # j
               /\ Flat(cache[k].pages)[i].createdAt = Flat(cache[k].pages)[j].createdAt

\* the matching rows from the cursor row on
FromCursor(where, cursor) ==
    {r \in tweets :
        /\ Matches(r, where)
        /\ cursor # NoCursor =>
               \/ r.id = cursor.id /\ r.createdAt = cursor.createdAt
               \/ SortsAfter(r, cursor)}

\* C2: for limit >= 1, every page served (compared with the storage result
\* for its request, no write having happened since): a storage result of
\* limit+1 rows gives a page of the first limit rows and the removed row's
\* (id, createdAt) as nextCursor; a result of at most limit rows is returned
\* whole without nextCursor; nextCursor is present iff matching tweets exist
\* beyond the page.
C2_FetchOneExtra ==
    \A k \in CacheKeys :
        (limit >= 1 /\ cache[k].populated /\ NoWritesSince(k)) =>
            \A n \in 1..Len(cache[k].pages) :
                LET data == FindMany(KeyWhere(k), CursorOf(k, n), limit + 1)
                    page == cache[k].pages[n]
                IN  /\ Len(data) = limit + 1 =>
                           /\ Len(page.tweets) = limit
                           /\ page.nextCursor =
                                  [id |-> data[limit + 1].id,
                                   createdAt |-> data[limit + 1].createdAt]
                           /\ \A i \in 1..limit : page.tweets[i].id = data[i].id
                    /\ Len(data) <= limit =>
                           /\ Len(page.tweets) = Len(data)
                           /\ \A i \in 1..Len(data) : page.tweets[i].id = data[i].id
                           /\ page.nextCursor = NoCursor
                    /\ page.nextCursor # NoCursor <=>
                           \E r \in FromCursor(KeyWhere(k), CursorOf(k, n)) :
                               r.id \notin IdsOf(page.tweets)

\* a walk whose first page is full and has a nextCursor, and whose last page,
\* asked with a cursor, has none
C2_Witness ==
    \E k \in CacheKeys :
        /\ limit >= 1 /\ WalkDone(k) /\ NoWritesSince(k)
        /\ Len(cache[k].pages) >= 2
        /\ Len(cache[k].pages[1].tweets) = limit
        /\ cache[k].pages[1].nextCursor # NoCursor

\* C7: with limit >= 1, when every tweet created since the first page is newer
\* than every tweet of the first page, the walk returns tweets that matched
\* when the first page was served only, none twice, and all of them once it
\* is complete: none of the tweets created since.
C7_InsertsInvisibleToWalk ==
    \A k \in CacheKeys :
        (/\ limit >= 1 /\ cache[k].populated
         /\ \A r \in tweets \ snapshot[k] :
               \A i \in 1..Len(cache[k].pages[1].tweets) :
                   r.createdAt > cache[k].pages[1].tweets[i].createdAt) =>
            /\ NoRepeat(Flat(cache[k].pages))
            /\ IdsOf(Flat(cache[k].pages)) \subseteq MatchedAtFirst(k)
            /\ WalkDone(k) => IdsOf(Flat(cache[k].pages)) = MatchedAtFirst(k)

\* a complete walk of two pages, between whose pages a matching newer tweet
\* was created
C7_Witness ==
    \E k \in CacheKeys :
        /\ limit >= 1 /\ WalkDone(k) /\ Len(cache[k].pages) >= 2
        /\ \A r \in tweets \ snapshot[k] :
               \A i \in 1..Len(cache[k].pages[1].tweets) :
                   r.createdAt > cache[k].pages[1].tweets[i].createdAt
        /\ \E r \in arrivals : Matches(r, KeyWhere(k)) /\ r \notin snapshot[k]

\* C8: the tweets of every page served are strictly ordered by createdAt
\* descending, ties broken by id descending.
C8_PageStrictlyOrdered ==
    \A k \in CacheKeys :
        \A n \in 1..Len(cache[k].pages) :
            \A i \in 1..(Len(cache[k].pages[n].tweets) - 1) :
                SortsAfter(cache[k].pages[n].tweets[i + 1], cache[k].pages[n].tweets[i])

\* a walk of two pages whose first page holds two tweets of which the newer
\* has the smaller id
C8_Witness ==
    \E k \in CacheKeys :
        /\ Len(cache[k].pages) >= 2
        /\ Len(cache[k].pages[1].tweets) = 2
        /\ cache[k].pages[1].tweets[1].createdAt
               > cache[k].pages[1].tweets[2].createdAt
        /\ cache[k].pages[1].tweets[1].id < cache[k].pages[1].tweets[2].id

\* C10: for an anonymous viewer every page infiniteFeed serves with
\* onlyFollowing = true is the page and nextCursor it returns with
\* onlyFollowing = false for the same cursor and limit (no write since); for a
\* known viewer it serves only tweets of authors the viewer follows.
C10_FollowingFilter ==
    /\ (session = NoUser /\ cache[KeyFollowing].populated
            /\ NoWritesSince(KeyFollowing)) =>
           \A n \in 1..Len(cache[KeyFollowing].pages) :
               cache[KeyFollowing].pages[n]
                   = infiniteFeed(NoUser, FALSE, limit, CursorOf(KeyFollowing, n))
    /\ session # NoUser =>
           \A n \in 1..Len(cache[KeyFollowing].pages) :
               \A i \in 1..Len(cache[KeyFollowing].pages[n].tweets) :
                   <<session, cache[KeyFollowing].pages[n].tweets[i].user>> \in follows

\* the anonymous client has walked the following-only feed to a second page
C10_Witness ==
    /\ session = NoUser
    /\ NoWritesSince(KeyFollowing)
    /\ Len(cache[KeyFollowing].pages) >= 2
    /\ Len(cache[KeyFollowing].pages[2].tweets) > 0
    /\ \E i \in 1..Len(Flat(cache[KeyFollowing].pages)) :
           <<"u1", Flat(cache[KeyFollowing].pages)[i].user>> \notin follows

\* ------------------------------------------------------------------ client claims
AuthorOf(t) == (CHOOSE r \in tweets : r.id = t).userId
\* the Like rows that reference tweet t
LikesOn(t) == {k \in LikeKeys : k[2] = t /\ likes[k] > 0}

\* C6: when the response of a successful toggleLike on tweet T arrives, and T
\* is in the cached pages of the global feed, of the following-only feed and
\* of the profile feed of T's author, every entry of T in the three caches
\* has its likeCount changed by +1 if addedLike else -1 and its likedByMe set
\* to addedLike, and no feed fetch is issued.
C6_CrossCachePropagation ==
    [][\A c \in CallIds :
        (/\ calls[c].pc = "done" /\ calls[c].card # NoCard
         /\ calls'[c].pc = "idle"
         /\ \A k \in {KeyGlobal, KeyFollowing, KeyProfile(AuthorOf(calls[c].tweetId))} :
                calls[c].tweetId \in CachedIds(k)) =>
            /\ fetches' = fetches
            /\ \A k \in {KeyGlobal, KeyFollowing,
                          KeyProfile(AuthorOf(calls[c].tweetId))} :
                   /\ Len(cache'[k].pages) = Len(cache[k].pages)
                   /\ \A n \in 1..Len(cache[k].pages) :
                          /\ Len(cache'[k].pages[n].tweets) = Len(cache[k].pages[n].tweets)
                          /\ \A i \in 1..Len(cache[k].pages[n].tweets) :
                                 cache[k].pages[n].tweets[i].id = calls[c].tweetId =>
                                     /\ cache'[k].pages[n].tweets[i].likeCount =
                                            cache[k].pages[n].tweets[i].likeCount
                                                + (IF calls[c].addedLike THEN 1 ELSE 0 - 1)
                                     /\ cache'[k].pages[n].tweets[i].likedByMe =
                                            calls[c].addedLike]_vars

\* the latest onSuccess took a Like away and changed the global, the
\* following-only and the author's profile cache
C6_Witness ==
    /\ applied.id # 0 /\ ~applied.addedLike
    /\ applied.slots = {KeyGlobal, KeyFollowing, KeyProfile(AuthorOf(applied.id))}
    /\ \A k \in applied.slots :
           \E i \in 1..Len(Flat(cache[k].pages)) :
               /\ Flat(cache[k].pages)[i].id = applied.id
               /\ ~Flat(cache[k].pages)[i].likedByMe

\* C9: every tweet of a page served has as likeCount the number of Like rows
\* that reference it when the page is read, and likedByMe true iff the viewer
\* is known and has a Like on it: false for an anonymous viewer.
C9_DerivedLikeFields ==
    [][\A k \in CacheKeys :
        Len(cache'[k].pages) = Len(cache[k].pages) + 1 =>
            LET page == cache'[k].pages[Len(cache'[k].pages)]
            IN  \A i \in 1..Len(page.tweets) :
                    /\ page.tweets[i].likeCount = Cardinality(LikesOn(page.tweets[i].id))
                    /\ page.tweets[i].likedByMe =
                           (session # NoUser /\ <<session, page.tweets[i].id>>
                                                    \in LikesOn(page.tweets[i].id))
                    /\ session = NoUser => ~page.tweets[i].likedByMe]_vars

\* an anonymous client holds a page with a tweet two viewers like
C9_Witness ==
    /\ session = NoUser
    /\ \E k \in CacheKeys :
           \E i \in 1..Len(Flat(cache[k].pages)) :
               /\ Flat(cache[k].pages)[i].likeCount = 2
               /\ ~Flat(cache[k].pages)[i].likedByMe

\* ------------------------------------------------------------------ toggle outcomes
\* C11: the write step of a toggleLike call ends in exactly one of three
\* ways: the Like was created and addedLike = true is returned; the Like was
\* deleted and addedLike = false is returned; or the call fails, returns no
\* result, and the Like table is as it was before the step.  A write that
\* storage rejects (the Like a create would add is there already or its tweet
\* is not, the Like a delete would remove is gone) always ends the third way.
C11_ToggleOutcomes ==
    [][\A c \in CallIds :
        (calls[c].pc = "found" /\ calls'[c].pc # "found") =>
            LET k == KeyOf(c)
                storageRejects ==
                    IF calls[c].existingLike THEN likes[k] = 0
                    ELSE likes[k] > 0 \/ ~TweetExists(k[2])
            IN  /\ \/ /\ calls'[c].pc = "done" /\ calls'[c].addedLike
                      /\ likes[k] = 0
                      /\ likes' = [likes EXCEPT ![k] = 1]
                   \/ /\ calls'[c].pc = "done" /\ ~calls'[c].addedLike
                      /\ likes[k] = 1
                      /\ likes' = [likes EXCEPT ![k] = 0]
                   \/ /\ calls'[c].pc = "failed"
                      /\ calls'[c].addedLike = IdleCall.addedLike
                      /\ likes' = likes
                /\ storageRejects <=> calls'[c].pc = "failed"]_vars

\* two calls of one viewer on one tweet both found the Like; one has deleted
\* it and the other's delete was rejected, the Like table left as the first
\* call made it
C11_Witness ==
    \E c, d \in CallIds :
        /\ c # d /\ KeyOf(c) = KeyOf(d)
        /\ calls[c].pc = "done" /\ ~calls[c].addedLike /\ calls[c].existingLike
        /\ calls[d].pc = "failed" /\ calls[d].existingLike
        /\ likes[KeyOf(d)] = 0

\* ------------------------------------------------------------------ list claims
\* C12: whenever the query of a list is in error, InfiniteTweetList renders
\* the error indicator, whatever tweets is: not nothing, not "No Tweets", not
\* the plain list.
C12_ErrorIndicatorShown ==
    \A k \in CacheKeys : IsError(k) => View(k).shown = "Error..."

\* C13: whenever a fetch of a list's query is in progress, the first one or a
\* later one, InfiniteTweetList renders the loading indicator: the spinner in
\* place of the list, or the loader at the end of the list.
C13_LoadingIndicatorShown ==
    \A k \in CacheKeys :
        query[k] = "fetching" =>
            \/ View(k).shown = "LoadingSpinner"
            \/ View(k).shown = "list" /\ View(k).loader

\* ------------------------------------------------------------------ like button claims
\* the toggleLike requests of the client's cards that are in flight
InFlight == {c \in CallIds : calls[c].pc # "idle" /\ calls[c].card # NoCard}

\* C14: from the click on the like button of tweet T until the response
\* arrives the button of T is disabled, so that the client never has two
\* toggleLike requests for one tweet in flight; the buttons of the other
\* tweets stay enabled.
C14_ButtonDisabledInFlight ==
    /\ \A c \in InFlight : CardLoading(calls[c].card)
    /\ \A c, d \in InFlight : c # d => calls[c].tweetId # calls[d].tweetId
    /\ \A k \in CacheKeys :
           \A i \in 1..Len(Flat(cache[k].pages)) :
               Flat(cache[k].pages)[i].id \notin {calls[c].tweetId : c \in InFlight} =>
                   ~CardLoading(<<k, Flat(cache[k].pages)[i].id>>)

\* C15: the cached likeCount and likedByMe of a tweet change only in the step
\* in which the response of a successful toggleLike on that tweet arrives:
\* the click, the server's steps and the arrival of an error response leave
\* every cache as it was.
C15_CacheChangesOnSuccessOnly ==
    [][/\ \A c \in CallIds :
            (\/ calls[c].pc = "idle" /\ calls'[c].pc = "found"
             \/ calls[c].pc = "found" /\ calls'[c].pc # "found"
             \/ calls[c].pc = "failed" /\ calls'[c].pc = "idle") => cache' = cache
       /\ \A k \in CacheKeys :
            \A n \in 1..Len(cache[k].pages) :
                \A i \in 1..Len(cache[k].pages[n].tweets) :
                    (\/ cache'[k].pages[n].tweets[i].likeCount
                            # cache[k].pages[n].tweets[i].likeCount
                     \/ cache'[k].pages[n].tweets[i].likedByMe
                            # cache[k].pages[n].tweets[i].likedByMe) =>
                        \E c \in InFlight :
                            /\ calls[c].pc = "done" /\ calls'[c].pc = "idle"
                            /\ calls[c].tweetId = cache[k].pages[n].tweets[i].id]_vars

\* the error response of a card's toggleLike has arrived, the tweet cached in
\* the card's list with the like fields the fetch gave it
C15_Witness ==
    /\ rejected # NoCard
    /\ applied = NoneApplied
    /\ \E i \in 1..Len(Flat(cache[rejected[1]].pages)) :
           /\ Flat(cache[rejected[1]].pages)[i].id = rejected[2]
           /\ Flat(cache[rejected[1]].pages)[i].likeCount = 0
           /\ ~Flat(cache[rejected[1]].pages)[i].likedByMe

\* ------------------------------------------------------------------ cursor claims
IsCursorRow(t, c) == t.id = c.id /\ t.createdAt = c.createdAt

SlotsOf(t) == {KeyGlobal, KeyFollowing, KeyProfile(AuthorOf(t))}

\* C17: the cache update of a successful toggleLike on tweet T changes
\* nothing but the likeCount and likedByMe of the entries whose id is T:
\* every other entry, the order of the tweets, the number of pages, every
\* nextCursor and the other fields of T stay; a slot never populated stays
\* unpopulated; a populated slot without T stays as it was; the slots other
\* than {}, {onlyFollowing: true} and {userId: T's author} are not touched.
C17_UpdateFrame ==
    [][\A c \in InFlight :
        (calls[c].pc = "done" /\ calls'[c].pc = "idle") =>
            \A k \in CacheKeys :
                /\ cache'[k].populated = cache[k].populated
                /\ Len(cache'[k].pages) = Len(cache[k].pages)
                /\ \A n \in 1..Len(cache[k].pages) :
                       /\ cache'[k].pages[n].nextCursor = cache[k].pages[n].nextCursor
                       /\ Len(cache'[k].pages[n].tweets) = Len(cache[k].pages[n].tweets)
                       /\ \A i \in 1..Len(cache[k].pages[n].tweets) :
                              LET old == cache[k].pages[n].tweets[i]
                                  new == cache'[k].pages[n].tweets[i]
                              IN  IF old.id = calls[c].tweetId
                                  THEN new = [old EXCEPT !.likeCount = new.likeCount,
                                                         !.likedByMe = new.likedByMe]
                                  ELSE new = old
                /\ ~cache[k].populated => cache'[k] = EmptyCache
                /\ calls[c].tweetId \notin CachedIds(k) => cache'[k] = cache[k]
                /\ k \notin SlotsOf(calls[c].tweetId) => cache'[k] = cache[k]]_vars

\* the latest update changed a slot of two pages that holds other tweets too,
\* while one of its three slots was unpopulated, another populated without
\* the tweet, and the profile list of another author populated
C17_Witness ==
    /\ applied.id # 0
    /\ \E k \in applied.slots :
           /\ Len(cache[k].pages) >= 2
           /\ CachedIds(k) # {applied.id}
    /\ \E k \in SlotsOf(applied.id) : ~cache[k].populated
    /\ \E k \in SlotsOf(applied.id) :
           cache[k].populated /\ CachedIds(k) # {} /\ applied.id \notin CachedIds(k)
    /\ \E k \in CacheKeys \ SlotsOf(applied.id) : CachedIds(k) # {}

\* C18: for every limit the input schema accepts, 0 and negative numbers
\* among them, a walk with no writes in between terminates: every page that
\* carries a nextCursor holds at least one tweet and at most limit tweets.
C18_WalkTerminates ==
    \A k \in CacheKeys :
        (cache[k].populated /\ NoWritesSince(k)) =>
            \A n \in 1..Len(cache[k].pages) :
                cache[k].pages[n].nextCursor # NoCursor =>
                    /\ Len(cache[k].pages[n].tweets) >= 1
                    /\ Len(cache[k].pages[n].tweets) <= limit

\* ------------------------------------------------------------------ cache agreement claims
\* C19: every cached tweet's likeCount is a non-negative integer in every
\* state of the client, also when the viewer likes and unlikes the tweet
\* from another session whose changes the client has not fetched.
C19_LikeCountNonNegative ==
    \A k \in CacheKeys :
        \A i \in 1..Len(Flat(cache[k].pages)) :
            Flat(cache[k].pages)[i].likeCount >= 0

\* C20: with one client, one viewer acting through it only and no other
\* writer, once the response of a successful toggleLike has been applied
\* every cached copy of the toggled tweet, in the global, the following-only
\* and the author's profile cache, has likedByMe equal to whether the server
\* holds the viewer's Like and likeCount equal to the server's number of
\* Likes on the tweet, after any number of toggles.
C20_CacheAgreesWithServer ==
    (applied.id # 0 /\ NothingInFlight) =>
        \A k \in SlotsOf(applied.id) :
            \A i \in 1..Len(Flat(cache[k].pages)) :
                Flat(cache[k].pages)[i].id = applied.id =>
                    /\ Flat(cache[k].pages)[i].likedByMe
                           = (likes[<<session, applied.id>>] > 0)
                    /\ Flat(cache[k].pages)[i].likeCount = LikeCount(applied.id)

====
